---- MODULE Spec2Model ----
(***************************************************************************)
(* bazels3cache: a caching HTTP proxy between Bazel's remote-cache         *)
(* protocol (GET / PUT / HEAD / DELETE) and an S3 bucket.                  *)
(*                                                                         *)
(* The model follows the server with the disk-staged asynchronous upload   *)
(* pipeline, the DELETE method and the socket timeout (startServer), and   *)
(* the in-memory LRU cache (class Cache).  Time is kept as the number of   *)
(* ticks each pending timer still has to wait.                             *)
(***************************************************************************)
EXTENDS Integers, Sequences, FiniteSets, TLC

(***************************************************************************)
(* Bounds of the model.                                                    *)
(***************************************************************************)
MaxInFlight == 2          \* requests being handled at the same time
MaxRequests == 3          \* requests received over a run
MaxPauseRequests == 5     \* requests received over a run of the sequential client
MaxPutRequests == 3       \* requests received over a run of the uploading clients
MaxIdleRequests == 2      \* requests received over a run of the reading clients
MaxCacheOps == 4          \* calls made on the content cache alone

(***************************************************************************)
(* Configuration values of the Config object, scaled down.                 *)
(***************************************************************************)
ErrorsBeforePausing == 2  \* config.errorsBeforePausing
PauseTicks == 2           \* config.pauseMinutes, in ticks
IdleTicks == 2            \* config.idleMinutes, in ticks (0 in the configuration turns it off)
SocketTimeoutTicks == 1   \* config.socketTimeoutSeconds, in ticks
MaxEntrySizeBytes == 4    \* config.maxEntrySizeBytes (limit for S3 uploads)
MaxPendingBytes == 3      \* config.asyncUpload.maxPendingUploadMB * 1024 * 1024
CacheEnabled == TRUE      \* config.cache.enabled
CacheMaxEntrySizeBytes == 3   \* config.cache.maxEntrySizeBytes
CacheMaxTotalSizeBytes == 3   \* config.cache.maxTotalSizeBytes
GccDepfileMaxLen == 100000

(***************************************************************************)
(* enum StatusCode                                                         *)
(***************************************************************************)
OK == 200
Forbidden == 403
NotFound == 404
MethodNotAllowed == 405

(***************************************************************************)
(* Strings are sequences of characters, buffers are sequences of bytes.    *)
(***************************************************************************)
null == <<"null">>
NoBody == <<>>
\* a slip: "ping" is echoed
Pong_Echo == <<112, 105, 110, 103>>

Pong == <<112, 111, 110, 103>>
ShuttingDown == <<115, 104, 117, 116>>
GccMarker == <<46, 111, 58, 32, 92>>
Bodies == {<<7>>, <<7, 7>>, GccMarker}
ShortBodies == {<<7>>, GccMarker}
CacheBodies == {<<7>>, <<8>>, <<7, 7>>, <<7, 7, 7>>}
CacheKeys == {<<"a">>, <<"b">>, <<"c">>}

Root == <<"/">>
PingUrl == <<"/", "p", "i", "n", "g">>
ShutdownUrl == <<"/", "s", "h", "u", "t", "d", "o", "w", "n">>
ObjectUrls == {<<"/", "a">>}
PauseUrls == {<<"/", "a">>, <<"/", "b">>}
Urls == ObjectUrls \cup {Root, PingUrl, ShutdownUrl}

\* req.url.slice(1)
S3Key(url) == Tail(url)

(***************************************************************************)
(* AWS.AWSError: the fields the server reads.  statusCode 0 stands for an  *)
(* error that carries no status code (undefined).                          *)
(***************************************************************************)
Errors ==
    { [retryable |-> TRUE,  statusCode |-> 0],
      [retryable |-> TRUE,  statusCode |-> 500],
      [retryable |-> FALSE, statusCode |-> 403],
      [retryable |-> FALSE, statusCode |-> 404],
      [retryable |-> FALSE, statusCode |-> 0] }

isIgnorableError(err) == err.retryable = TRUE

\* a slip: every error is ignored when allowOffline is set
shouldIgnoreError_AnyError(err, cfg) == cfg.allowOffline

shouldIgnoreError(err, cfg) == cfg.allowOffline /\ isIgnorableError(err)

\* a slip: the error's own status code is used even when the error is ignored
getHttpResponseStatusCode_NeverIgnore(err, codeIfIgnoringError, cfg) ==
    IF err.statusCode # 0 THEN err.statusCode ELSE NotFound

getHttpResponseStatusCode(err, codeIfIgnoringError, cfg) ==
    IF shouldIgnoreError(err, cfg)
    THEN codeIfIgnoringError
    ELSE IF err.statusCode # 0 THEN err.statusCode ELSE NotFound

\* body.indexOf(pat) >= 0
Contains(body, pat) ==
    \E i \in 1..(Len(body) - Len(pat) + 1) :
        SubSeq(body, i, i + Len(pat) - 1) = pat

isGccDepfile(body) == Len(body) <= GccDepfileMaxLen /\ Contains(body, GccMarker)

(***************************************************************************)
(* State of startServer.                                                   *)
(***************************************************************************)
VARIABLES
    config,              \* the Config object: allowOffline, asyncUpload.enabled,
                         \* allowGccDepfiles, idleMinutes, maxEntrySizeBytes,
                         \* cache.enabled
    running,             \* FALSE once process.exit() was called
    cache,               \* const cache = new Cache(config)
    idleTimers,          \* ticks left on every idle timer that is pending; the variable
                         \* idleTimer of the server refers to the newest one
    awsPauseTimer,       \* TRUE when the variable holds a timer, FALSE when null
    pauseTimers,         \* ticks left on every pause timer that has not fired yet, oldest first
    awsErrors,
    awsPaused,
    pendingUploadBytes,
    staged,              \* keys that have a file under config.asyncUpload.cacheDir
    reqs,                \* the requests being handled
    budget,              \* number of requests the clients will still send
    ev,                  \* what the last step did (request, response, backend call)
    failRun,             \* connectivity failures completed in a row (since unpausing)
    failsSince,          \* failed backend completions since the last successful one
    pausedFor,           \* ticks since awsPaused last changed from false to true
    idleFor              \* ticks since the last request was received (or since startup)

vars == <<config, running, cache, idleTimers, awsPauseTimer, pauseTimers, awsErrors,
          awsPaused, pendingUploadBytes, staged, reqs, budget, ev, failRun, failsSince,
          pausedFor, idleFor>>

(***************************************************************************)
(* class Cache: a map from key to node and a doubly linked recency list    *)
(* (head = newest, tail = oldest).  A node is named by its key.            *)
(***************************************************************************)
EmptyCache == [size |-> 0, head |-> null, tail |-> null, entries |-> [x \in {} |-> null]]

contains(c, s3key) == s3key \in DOMAIN c.entries

\* a slip: the neighbour's link is left as it was
SetLink_Skip(entries, k, field, v) == entries

SetLink(entries, k, field, v) ==
    [entries EXCEPT ![k] = [entries[k] EXCEPT ![field] = v]]

deleteNode(c, k) ==
    LET node == c.entries[k]
        e1 == IF node.prev # null THEN SetLink(c.entries, node.prev, "next", node.next)
                                  ELSE c.entries
        h1 == IF node.prev # null THEN c.head ELSE node.next
        e2 == IF node.next # null THEN SetLink(e1, node.next, "prev", node.prev)
                                  ELSE e1
        t1 == IF node.next # null THEN c.tail ELSE node.prev
    IN [size |-> c.size - Len(node.buffer),
        head |-> h1,
        tail |-> t1,
        entries |-> [x \in (DOMAIN e2) \ {k} |-> e2[x]]]

delete(c, s3key) == IF contains(c, s3key) THEN deleteNode(c, s3key) ELSE c

\* a slip: the newest entry is evicted first
RECURSIVE makeSpace_NewestFirst(_, _)
makeSpace_NewestFirst(c, newItemLength) ==
    IF config.cacheEnabled /\ c.head # null /\ c.size + newItemLength > CacheMaxTotalSizeBytes
    THEN makeSpace_NewestFirst(deleteNode(c, c.head), newItemLength)
    ELSE c

RECURSIVE makeSpace(_, _)
makeSpace(c, newItemLength) ==
    IF config.cacheEnabled /\ c.tail # null /\ c.size + newItemLength > CacheMaxTotalSizeBytes
    THEN makeSpace(deleteNode(c, c.tail), newItemLength)
    ELSE c

\* a slip: an entry of exactly maxEntrySizeBytes is let in
belowMaxEntrySize_Inclusive(buffer) == Len(buffer) <= CacheMaxEntrySizeBytes

\* buffer.byteLength < this.config.maxEntrySizeBytes
belowMaxEntrySize(buffer) == Len(buffer) < CacheMaxEntrySizeBytes

\* a slip: the entry under the key is removed only when the new buffer will be stored
deleteExisting_WhenStored(c, s3key, buffer) ==
    IF belowMaxEntrySize(buffer) THEN delete(c, s3key) ELSE c

\* this.delete(s3key) at the start of maybeAdd, before the size of the buffer is tested
deleteExisting(c, s3key, buffer) == delete(c, s3key)

\* a slip: the old entry is removed and the new one is never stored
maybeAdd_DeleteOnly(c, s3key, buffer) == delete(c, s3key)

maybeAdd(c, s3key, buffer) ==
    IF ~config.cacheEnabled THEN c
    ELSE LET c1 == deleteExisting(c, s3key, buffer) IN
         IF ~belowMaxEntrySize(buffer) THEN c1
         ELSE LET c2 == makeSpace(c1, Len(buffer))
                  node == [buffer |-> buffer, next |-> c2.head, prev |-> null]
                  e1 == IF node.next # null
                        THEN SetLink(c2.entries, node.next, "prev", s3key)
                        ELSE c2.entries
              IN [size |-> c2.size + Len(buffer),
                  head |-> s3key,
                  tail |-> IF c2.tail = null THEN s3key ELSE c2.tail,
                  entries |-> [x \in (DOMAIN e1) \cup {s3key} |->
                                  IF x = s3key THEN node ELSE e1[x]]]

\* a slip: the entry read stays where it is in the recency list
moveNodeToHead_InPlace(c, k) == c

moveNodeToHead(c, k) ==
    LET node == c.entries[k] IN maybeAdd(deleteNode(c, k), k, node.buffer)

\* a slip: reading an entry removes it
getCache_Remove(c, s3key) == delete(c, s3key)

\* Cache.get: the cache after the call, and the value returned
getCache(c, s3key) == IF contains(c, s3key) THEN moveNodeToHead(c, s3key) ELSE c

\* a slip: the last byte of the buffer is lost
getValue_Truncated(c, s3key) ==
    IF contains(c, s3key)
    THEN SubSeq(c.entries[s3key].buffer, 1, Len(c.entries[s3key].buffer) - 1)
    ELSE null

getValue(c, s3key) == IF contains(c, s3key) THEN c.entries[s3key].buffer ELSE null

Min(a, b) == IF a < b THEN a ELSE b

Slots == 1..MaxInFlight

NoErr == [retryable |-> FALSE, statusCode |-> 0]
\* the result of a request's backend call, as far as it is known
NoCall == [kind |-> "none", err |-> NoErr]        \* no backend call was made
Pending == [kind |-> "pending", err |-> NoErr]    \* the call has not resolved yet
Success == [kind |-> "ok", err |-> NoErr]
Failure(err) == [kind |-> "err", err |-> err]

\* a request being handled: sent is the status code of the response once it has been sent
Free == [method |-> "none", url |-> Root, pc |-> "none", sent |-> 0,
         sockLeft |-> 0, body |-> NoBody]

Request(method, url, pc, body) ==
    [method |-> method, url |-> url, pc |-> pc, sent |-> 0,
     sockLeft |-> SocketTimeoutTicks, body |-> body]

NoReq == [method |-> "none", url |-> Root]

NoResp == [status |-> 0, body |-> NoBody, via |-> "none", outcome |-> NoCall]

Resp(status, body, via, outcome) ==
    [status |-> status, body |-> body, via |-> via, outcome |-> outcome]

\* req: the request received or resumed in the step; resp: the response sent in the step;
\* call: a backend call was started; done: the backend completion handled;
\* answer: at a backend completion, the status code the client of that request has got;
\* dup: sendResponse ran on a response that had already been sent;
\* threw: the handler ended with an exception; errorsBefore: awsErrors before a completion;
\* data: the body the backend returned (GET) or the body that was staged (PUT)
NoEv == [req |-> NoReq, arrived |-> FALSE, resp |-> NoResp, call |-> FALSE, done |-> NoCall,
         answer |-> 0, dup |-> FALSE, threw |-> FALSE, errorsBefore |-> 0, data |-> NoBody]

\* a request was received and answered at once
Answered(method, url, resp) ==
    [NoEv EXCEPT !.req = [method |-> method, url |-> url], !.arrived = TRUE, !.resp = resp]

\* a request was received and left waiting (for its body or for the backend)
Accepted(method, url, call) ==
    [NoEv EXCEPT !.req = [method |-> method, url |-> url], !.arrived = TRUE, !.call = call]

\* sendResponse on the response of request r: nothing is sent twice
Send(r, resp) == IF r.sent # 0 THEN NoResp ELSE resp

\* the backend call of request r resolved; resp is what the handler passes to sendResponse
\* (NoResp when it does not call it)
Resolved(r, outcome, resp, threw) ==
    [NoEv EXCEPT !.req = [method |-> r.method, url |-> r.url],
                 !.resp = Send(r, resp),
                 !.done = outcome,
                 !.answer = IF r.sent # 0 THEN r.sent ELSE resp.status,
                 !.dup = (r.sent # 0 /\ resp # NoResp /\ ~threw),
                 !.threw = threw,
                 !.errorsBefore = awsErrors]

\* JSON.stringify(err, null, "  ")
JsonOf(err) == <<123, IF err.retryable THEN 1 ELSE 0, err.statusCode, 125>>

\* prepareErrorResponse followed by sendResponse
ErrorResp(err, codeIfIgnoringError) ==
    Resp(getHttpResponseStatusCode(err, codeIfIgnoringError, config), JsonOf(err),
         "handler", Failure(err))

FreeSlots == {i \in Slots : reqs[i].method = "none"}
\* a new request is handled in the first free slot
NewSlot == CHOOSE i \in FreeSlots : \A j \in FreeSlots : i <= j

CanReceive == running /\ FreeSlots # {} /\ budget > 0

\* the idle timer code at the top of the request listener
\* a slip: the timer that is running is not cancelled
ResetIdleTimer_NoClear ==
    IF config.idleMinutes # 0 THEN Append(idleTimers, config.idleMinutes) ELSE idleTimers

ResetIdleTimer ==
    LET cleared == IF idleTimers # <<>>          \* if (idleTimer) clearTimeout(idleTimer)
                   THEN SubSeq(idleTimers, 1, Len(idleTimers) - 1)
                   ELSE idleTimers
    IN IF config.idleMinutes # 0 THEN Append(cleared, config.idleMinutes) ELSE cleared

\* a request was received
Arrival == idleTimers' = ResetIdleTimer /\ idleFor' = 0

\* a slip: the server goes on listening
shutdown_StillListening == staged' = {} /\ running' = TRUE

\* shutdown(): clearAsyncUploadCache(); process.exit()
shutdown == staged' = {} /\ running' = FALSE

(***************************************************************************)
(* onAWSError / onAWSSuccess / the pause timer callback: the pause state   *)
(* after the call.                                                         *)
(***************************************************************************)
PauseState == [awsErrors |-> awsErrors, awsPaused |-> awsPaused,
               pauseTimers |-> pauseTimers, awsPauseTimer |-> awsPauseTimer]

\* a slip: the pause begins one failure late
onAWSError_Late(p) ==
    IF p.awsErrors + 1 > ErrorsBeforePausing
    THEN [awsErrors |-> p.awsErrors + 1, awsPaused |-> TRUE,
          pauseTimers |-> Append(p.pauseTimers, PauseTicks), awsPauseTimer |-> TRUE]
    ELSE [p EXCEPT !.awsErrors = p.awsErrors + 1]

onAWSError(p) ==
    IF p.awsErrors + 1 >= ErrorsBeforePausing
    THEN [awsErrors |-> p.awsErrors + 1, awsPaused |-> TRUE,
          pauseTimers |-> Append(p.pauseTimers, PauseTicks), awsPauseTimer |-> TRUE]
    ELSE [p EXCEPT !.awsErrors = p.awsErrors + 1]

\* a slip: the counter is left as it is
onAWSSuccess_KeepCount(p) == p

onAWSSuccess(p) == [p EXCEPT !.awsErrors = 0]

\* a slip: the counter is not reset when the pause ends
unpause_KeepCount(p) ==
    [awsErrors |-> p.awsErrors, awsPaused |-> FALSE,
     pauseTimers |-> Tail(p.pauseTimers), awsPauseTimer |-> FALSE]

unpause(p) ==
    [awsErrors |-> 0, awsPaused |-> FALSE,
     pauseTimers |-> Tail(p.pauseTimers), awsPauseTimer |-> FALSE]

SetPauseState(p) ==
    /\ awsErrors' = p.awsErrors
    /\ awsPaused' = p.awsPaused
    /\ pauseTimers' = p.pauseTimers
    /\ awsPauseTimer' = p.awsPauseTimer
    /\ pausedFor' = IF p.awsPaused /\ ~awsPaused THEN 0 ELSE pausedFor

\* bookkeeping of the backend completions
Completed(outcome) ==
    /\ failRun' = IF outcome.kind = "err" /\ outcome.err.retryable
                  THEN Min(failRun + 1, ErrorsBeforePausing) ELSE 0
    /\ failsSince' = IF outcome.kind = "err"
                     THEN Min(failsSince + 1, ErrorsBeforePausing) ELSE 0

NoCompletion == UNCHANGED <<failRun, failsSince>>

(***************************************************************************)
(* Init: the state when the server starts listening.                       *)
(***************************************************************************)
StartWith(n, idles, limits, enableds) ==
    /\ config \in [allowOffline : BOOLEAN, asyncUpload : BOOLEAN, allowGccDepfiles : BOOLEAN,
                    idleMinutes : idles, maxEntrySizeBytes : limits,
                    cacheEnabled : enableds]
    /\ running = TRUE
    /\ cache = EmptyCache
    /\ idleTimers = <<>>
    /\ awsPauseTimer = FALSE
    /\ pauseTimers = <<>>
    /\ awsErrors = 0
    /\ awsPaused = FALSE
    /\ pendingUploadBytes = 0
    /\ staged = {}          \* clearAsyncUploadCache() at startup
    /\ reqs = [i \in Slots |-> Free]
    /\ budget = n
    /\ ev = NoEv
    /\ failRun = 0
    /\ failsSince = 0
    /\ pausedFor = 0
    /\ idleFor = 0

Start(n, idles, limits) == StartWith(n, idles, limits, {CacheEnabled})

Init == Start(MaxRequests, {IdleTicks}, {MaxEntrySizeBytes})

(***************************************************************************)
(* GET                                                                     *)
(***************************************************************************)
\* a slip: a miss while paused is answered as if the object had been found
PausedResp_Found == Resp(OK, NoBody, "handler", NoCall)

\* else if (awsPaused): res.statusCode = StatusCode.NotFound; sendResponse(req, res, null)
PausedResp == Resp(NotFound, NoBody, "handler", NoCall)

\* what the then-handler of s3.getObject passes to sendResponse
GetThenResp(body) ==
    IF ~config.allowGccDepfiles /\ isGccDepfile(body)
    THEN Resp(NotFound, NoBody, "handler", Success)
    ELSE Resp(OK, body, "handler", Success)

GetRequest(url) ==
    LET s3key == S3Key(url) IN
    /\ CanReceive
    /\ budget' = budget - 1
    /\ Arrival
    /\ UNCHANGED <<config, awsPauseTimer, pauseTimers, awsErrors, awsPaused,
                   pendingUploadBytes, pausedFor>>
    /\ NoCompletion
    /\ IF s3key = S3Key(PingUrl) THEN
            /\ ev' = Answered("GET", url, Resp(OK, Pong, "handler", NoCall))
            /\ UNCHANGED <<running, cache, staged, reqs>>
       ELSE IF s3key = S3Key(ShutdownUrl) THEN
            /\ ev' = Answered("GET", url, Resp(OK, ShuttingDown, "handler", NoCall))
            /\ shutdown
            /\ UNCHANGED <<cache, reqs>>
       ELSE IF contains(cache, s3key) THEN
            /\ ev' = Answered("GET", url, Resp(OK, getValue(cache, s3key), "handler", NoCall))
            /\ cache' = getCache(cache, s3key)
            /\ UNCHANGED <<running, staged, reqs>>
       ELSE IF awsPaused THEN
            /\ ev' = Answered("GET", url, PausedResp)
            /\ UNCHANGED <<running, cache, staged, reqs>>
       ELSE \* s3.getObject(...)
            /\ reqs' = [reqs EXCEPT ![NewSlot] = Request("GET", url, "s3", NoBody)]
            /\ ev' = Accepted("GET", url, TRUE)
            /\ UNCHANGED <<running, cache, staged>>

\* s3request.then(data => ...)
GetThen(i, body) ==
    LET r == reqs[i]
        blocked == ~config.allowGccDepfiles /\ isGccDepfile(body)
    IN
    /\ running
    /\ r.method = "GET" /\ r.pc = "s3"
    /\ cache' = IF blocked THEN cache ELSE maybeAdd(cache, S3Key(r.url), body)
    /\ ev' = [Resolved(r, Success, GetThenResp(body), FALSE) EXCEPT !.data = body]
    /\ SetPauseState(onAWSSuccess(PauseState))
    /\ Completed(Success)
    /\ reqs' = [reqs EXCEPT ![i] = Free]
    /\ UNCHANGED <<config, running, idleTimers, idleFor, pendingUploadBytes, staged, budget>>

\* s3request.catch(err => ...); prepareErrorResponse throws in res.setHeader once the
\* response has been sent
GetCatch(i, err) ==
    LET r == reqs[i] IN
    /\ running
    /\ r.method = "GET" /\ r.pc = "s3"
    /\ SetPauseState(IF err.statusCode = NotFound THEN onAWSSuccess(PauseState)
                                                  ELSE onAWSError(PauseState))
    /\ Completed(Failure(err))
    /\ ev' = Resolved(r, Failure(err), ErrorResp(err, NotFound), r.sent # 0)
    /\ reqs' = [reqs EXCEPT ![i] = Free]
    /\ UNCHANGED <<config, running, cache, idleTimers, idleFor, pendingUploadBytes, staged, budget>>

(***************************************************************************)
(* PUT                                                                     *)
(***************************************************************************)
\* size > config.maxEntrySizeBytes without the test for zero (a slip)
exceedsMaxEntrySize_NoZeroTest(size) == size > config.maxEntrySizeBytes

\* config.maxEntrySizeBytes !== 0 && size > config.maxEntrySizeBytes
exceedsMaxEntrySize(size) ==
    config.maxEntrySizeBytes # 0 /\ size > config.maxEntrySizeBytes

\* pendingUploadBytes + size > config.asyncUpload.maxPendingUploadMB * 1024 * 1024
exceedsPendingUploads(size) == pendingUploadBytes + size > MaxPendingBytes

\* a slip: the pause is not looked at
uploadRejected_IgnorePause(size) == exceedsMaxEntrySize(size) \/ exceedsPendingUploads(size)

\* the three branches of the close listener that answer 200 without an upload
uploadRejected(size) ==
    awsPaused \/ exceedsMaxEntrySize(size) \/ exceedsPendingUploads(size)

\* a slip: the root path is answered like a redundant upload
RootPutResp_OK == Resp(OK, NoBody, "handler", NoCall)

\* if (req.url === "/"): res.statusCode = StatusCode.Forbidden; sendResponse(req, res, null)
RootPutResp == Resp(Forbidden, NoBody, "handler", NoCall)

PutRequest(url, body) ==
    LET s3key == S3Key(url) IN
    /\ CanReceive
    /\ budget' = budget - 1
    /\ Arrival
    /\ UNCHANGED <<config, running, cache, awsPauseTimer, pauseTimers, awsErrors, awsPaused,
                   pendingUploadBytes, staged, pausedFor>>
    /\ NoCompletion
    /\ IF url = Root THEN
            /\ ev' = Answered("PUT", url, RootPutResp)
            /\ UNCHANGED reqs
       ELSE IF s3key \in staged THEN
            \* fs.existsSync(pth): we are apparently already uploading this file
            /\ ev' = Answered("PUT", url, Resp(OK, NoBody, "handler", NoCall))
            /\ UNCHANGED reqs
       ELSE \* req.pipe(fs.createWriteStream(pth)): the stream opens the file later
            /\ reqs' = [reqs EXCEPT ![NewSlot] = Request("PUT", url, "opening", body)]
            /\ ev' = Accepted("PUT", url, FALSE)

\* the write stream has opened (created) its file
PutOpened(i) ==
    LET r == reqs[i] IN
    /\ running
    /\ r.method = "PUT" /\ r.pc = "opening"
    /\ staged' = staged \cup {S3Key(r.url)}
    /\ reqs' = [reqs EXCEPT ![i].pc = "staging"]
    /\ ev' = NoEv
    /\ UNCHANGED <<config, running, cache, idleTimers, idleFor, awsPauseTimer, pauseTimers, awsErrors,
                   awsPaused, pendingUploadBytes, budget, pausedFor>>
    /\ NoCompletion

\* the "close" listener of the write stream
PutStaged(i) ==
    LET r == reqs[i]
        s3key == S3Key(r.url)
        size == Len(r.body)      \* fs.statSync(pth).size
        here == [NoEv EXCEPT !.req = [method |-> "PUT", url |-> r.url], !.data = r.body]
    IN
    /\ running
    /\ r.method = "PUT" /\ r.pc = "staging"
    /\ UNCHANGED <<config, running, cache, idleTimers, idleFor, awsPauseTimer, pauseTimers, awsErrors,
                   awsPaused, budget, pausedFor>>
    /\ NoCompletion
    /\ IF s3key \notin staged
       THEN \* fs.statSync(pth) throws: the file was unlinked by another request for the
            \* key; the response goes out with the default status code
            /\ ev' = [here EXCEPT !.resp = Resp(OK, NoBody, "handler", NoCall)]
            /\ reqs' = [reqs EXCEPT ![i] = Free]
            /\ UNCHANGED <<staged, pendingUploadBytes>>
       ELSE IF uploadRejected(size)
       THEN /\ ev' = [here EXCEPT !.resp = Resp(OK, NoBody, "handler", NoCall)]
            /\ staged' = staged \ {s3key}        \* safeUnlinkSync(pth)
            /\ reqs' = [reqs EXCEPT ![i] = Free]
            /\ UNCHANGED pendingUploadBytes
       ELSE \* s3.upload(...)
            /\ pendingUploadBytes' = pendingUploadBytes + size
            /\ reqs' = [reqs EXCEPT ![i].pc = "s3",
                                    ![i].sent = IF config.asyncUpload THEN OK ELSE 0]
            /\ ev' = [here EXCEPT !.call = TRUE,
                                  !.resp = IF config.asyncUpload
                                           THEN Resp(OK, NoBody, "handler", Pending)
                                           ELSE NoResp]
            /\ UNCHANGED staged

\* a slip: the handlers of the upload answer in asynchronous mode too
PutResp_Always(resp) == resp

\* what the handlers of the upload pass to sendResponse
PutResp(resp) == IF config.asyncUpload THEN NoResp ELSE resp

\* s3request.then(...).then(release)
PutThen(i) ==
    LET r == reqs[i]
        size == Len(r.body)
    IN
    /\ running
    /\ r.method = "PUT" /\ r.pc = "s3"
    /\ ev' = [Resolved(r, Success, PutResp(Resp(OK, NoBody, "handler", Success)), FALSE)
                 EXCEPT !.data = r.body]
    /\ SetPauseState(onAWSSuccess(PauseState))
    /\ Completed(Success)
    /\ pendingUploadBytes' = pendingUploadBytes - size
    /\ staged' = staged \ {S3Key(r.url)}
    /\ reqs' = [reqs EXCEPT ![i] = Free]
    /\ UNCHANGED <<config, running, cache, idleTimers, idleFor, budget>>

\* s3request.catch(...).then(release); prepareErrorResponse throws in res.setHeader once
\* the response has been sent, and the rejected promise skips the final then()
PutCatch(i, err) ==
    LET r == reqs[i]
        size == Len(r.body)
        threw == ~config.asyncUpload /\ r.sent # 0
    IN
    /\ running
    /\ r.method = "PUT" /\ r.pc = "s3"
    /\ SetPauseState(onAWSError(PauseState))
    /\ Completed(Failure(err))
    /\ ev' = [Resolved(r, Failure(err), PutResp(ErrorResp(err, OK)), threw)
                 EXCEPT !.data = r.body]
    /\ pendingUploadBytes' = IF threw THEN pendingUploadBytes ELSE pendingUploadBytes - size
    /\ staged' = IF threw THEN staged ELSE staged \ {S3Key(r.url)}
    /\ reqs' = [reqs EXCEPT ![i] = Free]
    /\ UNCHANGED <<config, running, cache, idleTimers, idleFor, budget>>

(***************************************************************************)
(* HEAD                                                                    *)
(***************************************************************************)
\* what the then-handler of s3.headObject passes to sendResponse
HeadThenResp == Resp(OK, NoBody, "handler", Success)

\* prepareErrorResponse followed by sendResponse; the body written to the response of a
\* HEAD request is not sent
HeadCatchResp(err) == [ErrorResp(err, NotFound) EXCEPT !.body = NoBody]

HeadRequest(url) ==
    LET s3key == S3Key(url) IN
    /\ CanReceive
    /\ budget' = budget - 1
    /\ Arrival
    /\ UNCHANGED <<config, running, cache, awsPauseTimer, pauseTimers, awsErrors, awsPaused,
                   pendingUploadBytes, staged, pausedFor>>
    /\ NoCompletion
    /\ IF contains(cache, s3key) THEN
            /\ ev' = Answered("HEAD", url, Resp(OK, NoBody, "handler", NoCall))
            /\ UNCHANGED reqs
       ELSE IF awsPaused THEN
            /\ ev' = Answered("HEAD", url, PausedResp)
            /\ UNCHANGED reqs
       ELSE \* s3.headObject(...)
            /\ reqs' = [reqs EXCEPT ![NewSlot] = Request("HEAD", url, "s3", NoBody)]
            /\ ev' = Accepted("HEAD", url, TRUE)

HeadThen(i) ==
    LET r == reqs[i] IN
    /\ running
    /\ r.method = "HEAD" /\ r.pc = "s3"
    /\ ev' = Resolved(r, Success, HeadThenResp, FALSE)
    /\ SetPauseState(onAWSSuccess(PauseState))
    /\ Completed(Success)
    /\ reqs' = [reqs EXCEPT ![i] = Free]
    /\ UNCHANGED <<config, running, cache, idleTimers, idleFor, pendingUploadBytes, staged, budget>>

HeadCatch(i, err) ==
    LET r == reqs[i] IN
    /\ running
    /\ r.method = "HEAD" /\ r.pc = "s3"
    /\ SetPauseState(onAWSError(PauseState))
    /\ Completed(Failure(err))
    /\ ev' = Resolved(r, Failure(err), HeadCatchResp(err), r.sent # 0)
    /\ reqs' = [reqs EXCEPT ![i] = Free]
    /\ UNCHANGED <<config, running, cache, idleTimers, idleFor, pendingUploadBytes, staged, budget>>

(***************************************************************************)
(* DELETE                                                                  *)
(***************************************************************************)
DeleteRequest(url) ==
    LET s3key == S3Key(url) IN
    /\ CanReceive
    /\ budget' = budget - 1
    /\ Arrival
    /\ cache' = delete(cache, s3key)
    \* s3.deleteObject(...)
    /\ reqs' = [reqs EXCEPT ![NewSlot] = Request("DELETE", url, "s3", NoBody)]
    /\ ev' = Accepted("DELETE", url, TRUE)
    /\ UNCHANGED <<config, running, awsPauseTimer, pauseTimers, awsErrors, awsPaused,
                   pendingUploadBytes, staged, pausedFor>>
    /\ NoCompletion

DeleteThen(i) ==
    LET r == reqs[i] IN
    /\ running
    /\ r.method = "DELETE" /\ r.pc = "s3"
    /\ SetPauseState(onAWSSuccess(PauseState))
    /\ Completed(Success)
    /\ ev' = Resolved(r, Success, Resp(OK, NoBody, "handler", Success), FALSE)
    /\ reqs' = [reqs EXCEPT ![i] = Free]
    /\ UNCHANGED <<config, running, cache, idleTimers, idleFor, pendingUploadBytes, staged, budget>>

DeleteCatch(i, err) ==
    LET r == reqs[i] IN
    /\ running
    /\ r.method = "DELETE" /\ r.pc = "s3"
    /\ SetPauseState(onAWSError(PauseState))
    /\ Completed(Failure(err))
    /\ ev' = Resolved(r, Failure(err), ErrorResp(err, NotFound), r.sent # 0)
    /\ reqs' = [reqs EXCEPT ![i] = Free]
    /\ UNCHANGED <<config, running, cache, idleTimers, idleFor, pendingUploadBytes, staged, budget>>

(***************************************************************************)
(* Any other method                                                        *)
(***************************************************************************)
\* a slip: an unknown method is answered like a miss
DefaultResp_NotFound == Resp(NotFound, NoBody, "handler", NoCall)

\* default: res.statusCode = StatusCode.MethodNotAllowed; sendResponse(req, res, null)
DefaultResp == Resp(MethodNotAllowed, NoBody, "handler", NoCall)

OtherRequest(method, url) ==
    /\ CanReceive
    /\ budget' = budget - 1
    /\ Arrival
    /\ ev' = Answered(method, url, DefaultResp)
    /\ UNCHANGED <<config, running, cache, awsPauseTimer, pauseTimers, awsErrors, awsPaused,
                   pendingUploadBytes, staged, reqs, pausedFor>>
    /\ NoCompletion

(***************************************************************************)
(* Timers                                                                  *)
(***************************************************************************)
Waiting(r) == r.pc = "s3" /\ r.sent = 0

\* the callback of res.setTimeout
SocketTimeout(i) ==
    LET r == reqs[i] IN
    /\ running
    /\ Waiting(r) /\ r.sockLeft = 0
    /\ reqs' = [reqs EXCEPT ![i].sent = NotFound]
    /\ ev' = [NoEv EXCEPT !.req = [method |-> r.method, url |-> r.url],
                          !.resp = Resp(NotFound, NoBody, "timeout", Pending)]
    /\ UNCHANGED <<config, running, cache, idleTimers, idleFor, awsPauseTimer, pauseTimers, awsErrors,
                   awsPaused, pendingUploadBytes, staged, budget, pausedFor>>
    /\ NoCompletion

\* the callback of the pause timer set by onAWSError
PauseTimerFire ==
    /\ running
    /\ pauseTimers # <<>> /\ Head(pauseTimers) = 0
    /\ awsErrors' = unpause(PauseState).awsErrors
    /\ awsPaused' = unpause(PauseState).awsPaused
    /\ pauseTimers' = unpause(PauseState).pauseTimers
    /\ awsPauseTimer' = unpause(PauseState).awsPauseTimer
    /\ failRun' = IF awsPaused THEN 0 ELSE failRun
    /\ ev' = NoEv
    /\ UNCHANGED <<config, running, cache, idleTimers, idleFor, pendingUploadBytes, staged, reqs,
                   budget, failsSince, pausedFor>>

\* the callback of the idle timer: shutdown(...)
IdleTimerFire ==
    /\ running
    /\ \E j \in 1..Len(idleTimers) : idleTimers[j] = 0
    /\ shutdown
    /\ ev' = NoEv
    /\ UNCHANGED <<config, cache, idleTimers, idleFor, awsPauseTimer, pauseTimers, awsErrors, awsPaused,
                   pendingUploadBytes, reqs, budget, pausedFor>>
    /\ NoCompletion

\* one tick of time passes; a timer that is due fires before time moves on
Tick ==
    /\ running
    /\ \A j \in 1..Len(pauseTimers) : pauseTimers[j] > 0
    /\ \A j \in 1..Len(idleTimers) : idleTimers[j] > 0
    /\ \A i \in Slots : Waiting(reqs[i]) => reqs[i].sockLeft > 0
    /\ \/ pauseTimers # <<>>
       \/ idleTimers # <<>>
       \/ \E i \in Slots : Waiting(reqs[i])
    /\ pauseTimers' = [j \in 1..Len(pauseTimers) |-> pauseTimers[j] - 1]
    /\ idleTimers' = [j \in 1..Len(idleTimers) |-> idleTimers[j] - 1]
    /\ idleFor' = IF config.idleMinutes # 0 THEN Min(idleFor + 1, IdleTicks) ELSE idleFor
    /\ reqs' = [i \in Slots |-> IF Waiting(reqs[i])
                                THEN [reqs[i] EXCEPT !.sockLeft = reqs[i].sockLeft - 1]
                                ELSE reqs[i]]
    /\ pausedFor' = IF awsPaused THEN Min(pausedFor + 1, PauseTicks) ELSE pausedFor
    /\ ev' = NoEv
    /\ UNCHANGED <<config, running, cache, awsPauseTimer, awsErrors, awsPaused,
                   pendingUploadBytes, staged, budget>>
    /\ NoCompletion

(***************************************************************************)
(* The server with any clients.                                            *)
(***************************************************************************)
Next ==
    \/ \E url \in Urls : GetRequest(url)
    \/ \E i \in Slots, body \in ShortBodies : GetThen(i, body)
    \/ \E i \in Slots, err \in Errors : GetCatch(i, err)
    \/ \E url \in ObjectUrls \cup {Root}, body \in ShortBodies : PutRequest(url, body)
    \/ \E i \in Slots : PutOpened(i)
    \/ \E i \in Slots : PutStaged(i)
    \/ \E i \in Slots : PutThen(i)
    \/ \E i \in Slots, err \in Errors : PutCatch(i, err)
    \/ \E url \in ObjectUrls : HeadRequest(url)
    \/ \E i \in Slots : HeadThen(i)
    \/ \E i \in Slots, err \in Errors : HeadCatch(i, err)
    \/ \E url \in ObjectUrls : DeleteRequest(url)
    \/ \E i \in Slots : DeleteThen(i)
    \/ \E i \in Slots, err \in Errors : DeleteCatch(i, err)
    \/ \E url \in ObjectUrls : OtherRequest("POST", url)
    \/ \E i \in Slots : SocketTimeout(i)
    \/ PauseTimerFire
    \/ IdleTimerFire
    \/ Tick

Spec == Init /\ [][Next]_vars

(***************************************************************************)
(* The server with the idle timer turned off and one client that sends its *)
(* requests one after the other and only reads and deletes.                *)
(***************************************************************************)
InitPause == Start(MaxPauseRequests, {0}, {MaxEntrySizeBytes})

Sequential == FreeSlots = Slots

NextPause ==
    \/ \E url \in PauseUrls : Sequential /\ GetRequest(url)
    \/ \E i \in Slots, body \in Bodies : GetThen(i, body)
    \/ \E i \in Slots, err \in Errors : GetCatch(i, err)
    \/ \E url \in PauseUrls : Sequential /\ DeleteRequest(url)
    \/ \E i \in Slots : DeleteThen(i)
    \/ \E i \in Slots, err \in Errors : DeleteCatch(i, err)
    \/ \E i \in Slots : SocketTimeout(i)
    \/ PauseTimerFire
    \/ Tick

SpecPause == InitPause /\ [][NextPause]_vars

\* timer callbacks run when they are due, and time passes
FairPause ==
    /\ SpecPause
    /\ WF_vars(Tick)
    /\ WF_vars(PauseTimerFire)
    /\ \A i \in Slots : WF_vars(SocketTimeout(i))

(***************************************************************************)
(* The server with the idle timer turned off, clients that only upload,    *)
(* and the per-entry limit either set or turned off (0).                   *)
(***************************************************************************)
InitPut == Start(MaxPutRequests, {0}, {0, MaxEntrySizeBytes})

NextPut ==
    \/ \E url \in PauseUrls \cup {Root}, body \in Bodies : PutRequest(url, body)
    \/ \E i \in Slots : PutOpened(i)
    \/ \E i \in Slots : PutStaged(i)
    \/ \E i \in Slots : PutThen(i)
    \/ \E i \in Slots, err \in Errors : PutCatch(i, err)
    \/ \E i \in Slots : SocketTimeout(i)
    \/ PauseTimerFire
    \/ Tick

SpecPut == InitPut /\ [][NextPut]_vars

(***************************************************************************)
(* The server with the idle timer on or off and clients that only read.    *)
(* Timer callbacks run when they are due, and time passes.                 *)
(***************************************************************************)
InitIdle == Start(MaxIdleRequests, {0, IdleTicks}, {MaxEntrySizeBytes})

NextIdle ==
    \/ \E url \in Urls : GetRequest(url)
    \/ \E i \in Slots, body \in ShortBodies : GetThen(i, body)
    \/ \E i \in Slots, err \in Errors : GetCatch(i, err)
    \/ \E i \in Slots : SocketTimeout(i)
    \/ PauseTimerFire
    \/ IdleTimerFire
    \/ Tick

SpecIdle == InitIdle /\ [][NextIdle]_vars

FairIdle ==
    /\ SpecIdle
    /\ WF_vars(Tick)
    /\ WF_vars(PauseTimerFire)
    /\ WF_vars(IdleTimerFire)
    /\ \A i \in Slots : WF_vars(SocketTimeout(i))

(***************************************************************************)
(* The content cache alone: any sequence of maybeAdd, get and delete.      *)
(***************************************************************************)
InitCache == StartWith(MaxCacheOps, {0}, {MaxEntrySizeBytes}, BOOLEAN)

CacheCall(method, s3key) == [NoEv EXCEPT !.req = [method |-> method, url |-> <<"/">> \o s3key]]

CacheFrame ==
    /\ running /\ budget > 0
    /\ budget' = budget - 1
    /\ UNCHANGED <<config, running, idleTimers, idleFor, awsPauseTimer, pauseTimers, awsErrors,
                   awsPaused, pendingUploadBytes, staged, reqs, pausedFor>>
    /\ NoCompletion

CachePut(s3key, buffer) ==
    /\ CacheFrame
    /\ cache' = maybeAdd(cache, s3key, buffer)
    /\ ev' = [CacheCall("put", s3key) EXCEPT !.data = buffer]

\* the value returned is recorded as a response: OK with the buffer, NotFound for null
CacheGet(s3key) ==
    /\ CacheFrame
    /\ cache' = getCache(cache, s3key)
    /\ ev' = [CacheCall("get", s3key) EXCEPT
                 !.resp = IF contains(cache, s3key)
                          THEN Resp(OK, getValue(cache, s3key), "cache", NoCall)
                          ELSE Resp(NotFound, NoBody, "cache", NoCall)]

CacheDelete(s3key) ==
    /\ CacheFrame
    /\ cache' = delete(cache, s3key)
    /\ ev' = CacheCall("delete", s3key)

NextCache ==
    \/ \E s3key \in CacheKeys, buffer \in CacheBodies : CachePut(s3key, buffer)
    \/ \E s3key \in CacheKeys : CacheGet(s3key)
    \/ \E s3key \in CacheKeys : CacheDelete(s3key)

SpecCache == InitCache /\ [][NextCache]_vars

TypeOK ==
    /\ running \in BOOLEAN
    /\ awsErrors \in 0..MaxPauseRequests
    /\ awsPaused \in BOOLEAN
    /\ pendingUploadBytes \in 0..MaxPendingBytes
    /\ staged \subseteq {S3Key(url) : url \in PauseUrls}
    /\ budget \in 0..MaxPauseRequests
    /\ Len(idleTimers) <= MaxRequests + 1
    /\ idleFor \in 0..IdleTicks

(***************************************************************************)
(* Properties                                                              *)
(***************************************************************************)
ConnectivityFailure(outcome) == outcome.kind = "err" /\ outcome.err.retryable
OtherFailure(outcome) == outcome.kind = "err" /\ ~outcome.err.retryable
ObjectPut == ev.req.method = "PUT" /\ ev.req.url # Root

\* C1: with allowOffline, a PUT to a non-root key is answered 200 whenever the backend
\* accepts the upload or fails only for connectivity reasons (or is not called at all),
\* in every interleaving with the timers.
C1_PutAnswered200 ==
    config.allowOffline =>
        /\ (ObjectPut /\ ev.resp # NoResp /\ ev.resp.outcome = NoCall) => ev.resp.status = OK
        /\ (ObjectPut /\ (ev.done = Success \/ ConnectivityFailure(ev.done)))
              => ev.answer = OK

\* C2: with allowOffline, a GET or HEAD whose backend call fails for connectivity reasons
\* is answered 404, and every GET or HEAD response sent without a backend result other
\* than a connectivity failure is 200 or 404.
C2_OfflineReadsAre200Or404 ==
    (config.allowOffline /\ ev.req.method \in {"GET", "HEAD"}) =>
        /\ ConnectivityFailure(ev.done) => ev.answer = NotFound
        /\ (ev.resp # NoResp /\ (ev.resp.outcome.kind \in {"none", "pending"}
                                 \/ ConnectivityFailure(ev.resp.outcome)))
              => ev.resp.status \in {OK, NotFound}

C2_Witness ==
    /\ config.allowOffline
    /\ ev.req.method \in {"GET", "HEAD"}
    /\ ConnectivityFailure(ev.done) /\ ev.done.err.statusCode = 500
    /\ ev.resp.status = NotFound

SurfacingMethod ==
    \/ ev.req.method \in {"GET", "HEAD", "DELETE"}
    \/ (ev.req.method = "PUT" /\ ~config.asyncUpload)

\* C3 as stated: a backend error that is not a connectivity error is answered with the
\* backend's status code (GET, HEAD, DELETE, synchronous PUT), never with 200 and never
\* with a 404 the backend did not report.
C3_BackendStatusSurfaced ==
    (OtherFailure(ev.done) /\ SurfacingMethod) =>
        /\ ev.answer # OK
        /\ ev.done.err.statusCode # 0 => ev.answer = ev.done.err.statusCode
        /\ ev.answer = NotFound => ev.done.err.statusCode = NotFound

\* C3 amended: a backend error that is not a connectivity error is answered with the
\* backend's status code, or with 404 when the error carries no status code (GET, HEAD,
\* DELETE, synchronous PUT, whatever allowOffline), unless the socket timeout has
\* already answered the request.
C3_BackendStatusOr404 ==
    (OtherFailure(ev.done) /\ SurfacingMethod /\ ~ev.threw) =>
        /\ ev.resp # NoResp
        /\ ev.resp.status = IF ev.done.err.statusCode # 0 THEN ev.done.err.statusCode
                                                          ELSE NotFound
        /\ ev.answer = ev.resp.status

C3_Witness ==
    /\ config.allowOffline
    /\ ev.req.method = "PUT" /\ ~config.asyncUpload
    /\ OtherFailure(ev.done) /\ ev.done.err.statusCode = Forbidden
    /\ ev.resp.status = Forbidden

\* C4: while the backend is paused no request of any method starts a backend call.
C4_NoBackendCallWhilePaused == ev.call => ~awsPaused

\* C5: after errorsBeforePausing backend calls in a row have completed with a
\* connectivity failure, isPaused() is true.
C5_PausedAfterFailures ==
    (ConnectivityFailure(ev.done) /\ failRun >= ErrorsBeforePausing) => awsPaused

\* C6: every pause episode lasts at least pauseMinutes.
C6_PauseLastsPauseMinutes ==
    [][(awsPaused /\ ~awsPaused') => pausedFor >= PauseTicks]_vars

\* C7: a backend call that completes successfully resets the failure counter to zero,
\* and a pause begins only after errorsBeforePausing failed completions since the last
\* successful one.
C7_SuccessResetsCounter ==
    [][/\ ev'.done = Success => awsErrors' = 0
       /\ (~awsPaused /\ awsPaused') => failsSince' >= ErrorsBeforePausing]_vars

C7_Witness == ev.done = Success /\ ev.errorsBefore > 0 /\ awsErrors = 0

\* C8: a not-found outcome of a backend GET, HEAD or DELETE resets the failure counter
\* to zero and never increments it.
C8_NotFoundResetsCounter ==
    (ev.done.kind = "err" /\ ev.done.err.statusCode = NotFound
        /\ ev.req.method \in {"GET", "HEAD", "DELETE"}) => awsErrors = 0

\* C9: when a pause timer fires, paused is cleared and the failure counter is reset to
\* zero; and once paused the server eventually is not paused, with the counter at zero
\* (timers fire when they are due, the process is not shut down).
C9_EventuallyUnpaused ==
    /\ [][Len(pauseTimers') < Len(pauseTimers) => (~awsPaused' /\ awsErrors' = 0)]_vars
    /\ awsPaused ~> (~awsPaused /\ awsErrors = 0)

C9_Witness == ~awsPaused /\ awsErrors = 0 /\ pausedFor = PauseTicks /\ pauseTimers = <<>>

\* C10: a GET for a key resident in the content cache is answered 200 with exactly the
\* cached bytes and starts no backend call, paused or not.
C10_CacheHit ==
    [][(ev'.arrived /\ ev'.req.method = "GET"
            /\ S3Key(ev'.req.url) \in DOMAIN cache.entries)
          => /\ ev'.resp.status = OK
             /\ ev'.resp.body = cache.entries[S3Key(ev'.req.url)].buffer
             /\ ~ev'.call
             /\ reqs' = reqs]_vars

C10_Witness ==
    /\ ev.arrived /\ ev.req.method = "GET"
    /\ awsPaused
    /\ ev.resp.status = OK /\ ev.resp.body \in Bodies /\ ev.resp.outcome = NoCall

\* C11: a GET for a key that is not in the content cache, received while the backend is
\* paused, is answered 404 without a body, starts no backend call and leaves the content
\* cache, the failure counter and the pause state as they were.
C11_PausedMissUntouched ==
    [][(ev'.arrived /\ ev'.req.method = "GET" /\ ev'.req.url \in PauseUrls
            /\ ~contains(cache, S3Key(ev'.req.url)) /\ awsPaused)
          => /\ ev'.resp.status = NotFound /\ ev'.resp.body = NoBody
             /\ ~ev'.call /\ reqs' = reqs
             /\ cache' = cache
             /\ awsErrors' = awsErrors
             /\ awsPaused' /\ pauseTimers' = pauseTimers /\ awsPauseTimer' = awsPauseTimer]_vars

C11_Witness ==
    /\ ev.arrived /\ ev.req.method = "GET" /\ ev.req.url \in PauseUrls
    /\ awsPaused /\ ~contains(cache, S3Key(ev.req.url))
    /\ ev.resp.status = NotFound /\ ev.resp.outcome = NoCall

GetFetched == ev.req.method = "GET" /\ ev.done = Success
Cacheable(body) == config.cacheEnabled /\ Len(body) < CacheMaxEntrySizeBytes
Holds(c, s3key, body) == contains(c, s3key) /\ c.entries[s3key].buffer = body

\* C12 as stated: a GET whose backend call succeeds with body b is answered 200 with body
\* b, and afterwards the content cache holds b under the key when the cache is enabled
\* and b is shorter than the cache's per-entry limit, for every b.
C12_GetMissFetched ==
    GetFetched =>
        /\ ev.answer = OK
        /\ ev.resp.body = ev.data
        /\ Cacheable(ev.data) => Holds(cache, S3Key(ev.req.url), ev.data)

\* C12 amended: the same, unless the socket timeout has already answered the request, or
\* b is a GCC depfile while allowGccDepfiles is off; in the latter case the answer is 404
\* without a body.
C12_GetMissFetchedUnlessBlocked ==
    GetFetched =>
        LET blocked == ~config.allowGccDepfiles /\ isGccDepfile(ev.data) IN
        /\ (~blocked /\ ~ev.dup) => (ev.resp.status = OK /\ ev.resp.body = ev.data)
        /\ (blocked /\ ~ev.dup) => (ev.resp.status = NotFound /\ ev.resp.body = NoBody)
        /\ (~blocked /\ Cacheable(ev.data)) => Holds(cache, S3Key(ev.req.url), ev.data)

C12_Witness ==
    /\ GetFetched /\ ev.data = <<7>>
    /\ ev.resp.status = OK /\ ev.resp.body = <<7>>
    /\ Holds(cache, S3Key(ev.req.url), <<7>>)

\* the step answered a PUT with 200 in the paused branch or after admitting the upload
PutAnswered200 ==
    /\ ObjectPut /\ ~ev.arrived
    /\ ev.resp.status = OK
    /\ awsPaused \/ ev.call \/ ev.done.kind \in {"ok", "err"}

\* C13: once a PUT of body v for key k has been answered 200 (paused, or upload
\* admitted), a GET for k that follows is answered 200 with body v from the content
\* cache, without a backend call (v shorter than the cache's per-entry limit).
C13_GetAfterPut ==
    [][(PutAnswered200 /\ Cacheable(ev.data)
            /\ ev'.arrived /\ ev'.req = [method |-> "GET", url |-> ev.req.url])
          => /\ ev'.resp.status = OK
             /\ ev'.resp.body = ev.data
             /\ ~ev'.call]_vars

\* C14: in asynchronous mode an admitted PUT is answered 200 in the step that starts its
\* upload, and the completion of the upload sends nothing to the client and leaves the
\* 200 as the answer.
C14_AsyncPutAnsweredOnce ==
    (config.asyncUpload /\ ObjectPut) =>
        /\ ev.call => (ev.resp.status = OK /\ ev.resp.outcome = Pending)
        /\ ev.done.kind \in {"ok", "err"} =>
              (ev.resp = NoResp /\ ev.answer = OK /\ ~ev.dup /\ ~ev.threw)

C14_Witness ==
    /\ config.asyncUpload /\ ObjectPut
    /\ OtherFailure(ev.done) /\ ev.done.err.statusCode = Forbidden
    /\ ev.resp = NoResp /\ ev.answer = OK

\* C15: in synchronous mode no response to an admitted PUT is sent while its upload is
\* unresolved, and the answer is 200 on success, 200 on an ignorable connectivity
\* failure and the backend's status code on any other failure.
C15_SyncPutAnsweredAfterUpload ==
    (~config.asyncUpload /\ ObjectPut) =>
        /\ ev.resp # NoResp => ev.resp.outcome # Pending
        /\ ev.done = Success => ev.answer = OK
        /\ (ConnectivityFailure(ev.done) /\ config.allowOffline) => ev.answer = OK
        /\ (ev.done.kind = "err" /\ ~shouldIgnoreError(ev.done.err, config)
                /\ ev.done.err.statusCode # 0) => ev.answer = ev.done.err.statusCode

\* C16: at any moment at most one backend upload per key is in flight.
C16_OneUploadPerKey ==
    \A i, j \in Slots :
        (i # j /\ reqs[i].method = "PUT" /\ reqs[j].method = "PUT"
             /\ reqs[i].url = reqs[j].url)
          => ~(reqs[i].pc = "s3" /\ reqs[j].pc = "s3")

\* the step is the close listener of the request in slot i
Closes(i) == reqs[i].method = "PUT" /\ reqs[i].pc = "staging" /\ reqs'[i].pc # "staging"

C18_PausedPutAnswered200 ==
    [][\A i \in Slots : (Closes(i) /\ awsPaused) =>
          /\ ev'.resp.status = OK
          /\ ~ev'.call /\ reqs'[i] = Free
          /\ pendingUploadBytes' = pendingUploadBytes
          /\ S3Key(reqs[i].url) \notin staged']_vars

C18_Witness ==
    /\ ObjectPut /\ ~ev.arrived /\ awsPaused
    /\ Len(ev.data) <= MaxPendingBytes /\ pendingUploadBytes = 0
    /\ ev.resp.status = OK /\ ev.resp.outcome = NoCall
    /\ S3Key(ev.req.url) \notin staged

\* C19: with allowOffline, a DELETE whose backend call fails for connectivity reasons is
\* answered 200.
C19_OfflineDeleteAnswered200 ==
    (config.allowOffline /\ ev.req.method = "DELETE" /\ ConnectivityFailure(ev.done))
        => ev.answer = OK

\* C20: a HEAD is answered without a body and with the status code a GET for the key
\* would get from the same backend result, whatever object the backend holds.
C20_HeadLikeGet ==
    (ev.req.method = "HEAD" /\ ev.resp # NoResp) =>
        /\ ev.resp.body = NoBody
        /\ ev.done = Success => \A b \in Bodies : GetThenResp(b).status = ev.resp.status
        /\ ev.done.kind = "err" =>
              ErrorResp(ev.done.err, NotFound).status = ev.resp.status

\* the frame of a request that only answers: no request is left waiting, and the content
\* cache, the failure counter, the pause state, the pending bytes and the staged files
\* are as before
NoSideEffect ==
    /\ ~ev'.call /\ reqs' = reqs
    /\ cache' = cache
    /\ awsErrors' = awsErrors /\ awsPaused' = awsPaused
    /\ pauseTimers' = pauseTimers /\ awsPauseTimer' = awsPauseTimer
    /\ pendingUploadBytes' = pendingUploadBytes
    /\ staged' = staged

\* C21: a PUT to the root path is answered 403 in every state, creates no staged file,
\* starts no backend call and changes neither the content cache nor the pending bytes.
C21_RootPutForbidden ==
    [][(ev'.arrived /\ ev'.req = [method |-> "PUT", url |-> Root])
          => (ev'.resp.status = Forbidden /\ ev'.resp.body = NoBody /\ NoSideEffect)]_vars

C21_Witness ==
    /\ ev.arrived /\ ev.req = [method |-> "PUT", url |-> Root]
    /\ awsPaused /\ ev.resp.status = Forbidden

\* C22: a request with a method other than GET, PUT, HEAD and DELETE is answered 405
\* and changes neither the content cache, the failure counter, the pause state, the
\* pending bytes nor the staged files, and starts no backend call.
C22_OtherMethodNotAllowed ==
    [][(ev'.arrived /\ ev'.req.method \notin {"GET", "PUT", "HEAD", "DELETE"})
          => (ev'.resp.status = MethodNotAllowed /\ ev'.resp.body = NoBody
                /\ NoSideEffect)]_vars

C22_Witness ==
    /\ ev.arrived /\ ev.req.method = "POST"
    /\ awsErrors > 0 /\ ev.resp.status = MethodNotAllowed

\* C23: GET /ping is answered 200 with the body "pong" in every state, without a
\* backend call and without a change of the content cache.
C23_PingPong ==
    [][(ev'.arrived /\ ev'.req = [method |-> "GET", url |-> PingUrl])
          => (ev'.resp.status = OK /\ ev'.resp.body = <<112, 111, 110, 103>>
                /\ NoSideEffect)]_vars

C23_Witness ==
    /\ ev.arrived /\ ev.req = [method |-> "GET", url |-> PingUrl]
    /\ awsPaused /\ ev.resp.status = OK /\ ev.resp.body = <<112, 111, 110, 103>>

\* C24: GET /shutdown is answered 200 and ends the server whatever the idle timer says;
\* once the server has ended no request is received and nothing else happens.
C24_ShutdownEndsServer ==
    [][/\ running
       /\ (ev'.arrived /\ ev'.req = [method |-> "GET", url |-> ShutdownUrl])
             => (ev'.resp.status = OK /\ ~running')]_vars

C24_Witness ==
    /\ ev.arrived /\ ev.req = [method |-> "GET", url |-> ShutdownUrl]
    /\ ev.resp.status = OK /\ ~running
    /\ idleTimers = <<IdleTicks>>

\* C25: with idleMinutes greater than zero the server ends once no request has been
\* received for idleMinutes, counted from the last request or from startup; with
\* idleMinutes zero it ends only when it is asked to shut down.
C25_IdleTerminates ==
    /\ (config.idleMinutes # 0) ~> ~running
    /\ [][(config.idleMinutes = 0 /\ running /\ ~running')
            => ev'.req = [method |-> "GET", url |-> ShutdownUrl]]_vars

\* the step is the idle timer ending the server
IdleTermination == running /\ ~running' /\ ~ev'.arrived

\* C26: every request leaves exactly one idle timer pending, set to the full idle
\* duration; the server is not ended for idleness sooner than idleMinutes after the
\* last request; at most one idle timer is pending at any time.
C26_IdleTimerRestarted ==
    [][/\ ev'.arrived => idleTimers' = <<config.idleMinutes>>
       /\ IdleTermination => idleFor >= config.idleMinutes
       /\ Len(idleTimers') <= 1]_vars

C26_Witness ==
    /\ ev.arrived /\ ev.req.method = "POST"
    /\ idleFor = 0 /\ idleTimers = <<IdleTicks>> /\ budget = MaxRequests - 2

\* the step resolves the upload of the request in slot i, which the socket timeout has
\* answered
ResolvesTimedOut(i) ==
    /\ reqs[i].method = "PUT" /\ reqs[i].pc = "s3" /\ reqs[i].sent = NotFound
    /\ ~config.asyncUpload
    /\ reqs'[i] = Free

\* C27: a request that the socket timeout has answered (404) still has its upload
\* resolved, and the resolution releases its pending bytes and its staged file.
C27_TimedOutUploadReleased ==
    [][/\ \A i \in Slots : (reqs'[i].sent # reqs[i].sent /\ reqs[i].pc = "s3"
                               /\ reqs'[i].pc = "s3") => reqs'[i].sent = NotFound
       /\ \A i \in Slots : ResolvesTimedOut(i) =>
             /\ pendingUploadBytes' = pendingUploadBytes - Len(reqs[i].body)
             /\ S3Key(reqs[i].url) \notin staged']_vars

\* the bytes of the buffers of the entries named in a sequence of keys
RECURSIVE BytesOf(_, _)
BytesOf(c, keys) ==
    IF keys = <<>> THEN 0
    ELSE Len(c.entries[Head(keys)].buffer) + BytesOf(c, Tail(keys))

\* the keys met on the way from node k along the next links, at most fuel of them
RECURSIVE Walk(_, _, _)
Walk(c, k, fuel) ==
    IF k = null \/ fuel = 0 \/ k \notin DOMAIN c.entries THEN <<>>
    ELSE <<k>> \o Walk(c, c.entries[k].next, fuel - 1)

\* the recency list, newest first
Order(c) == Walk(c, c.head, Cardinality(DOMAIN c.entries) + 1)

\* the bytes of the resident entries, counted over the key map
RECURSIVE ResidentBytes(_, _)
ResidentBytes(c, keys) ==
    IF keys = {} THEN 0
    ELSE LET k == CHOOSE x \in keys : TRUE
         IN Len(c.entries[k].buffer) + ResidentBytes(c, keys \ {k})

Without(keys, k) == SelectSeq(keys, LAMBDA x : x # k)

\* C28: after any sequence of maybeAdd, get and delete on the enabled cache (per-entry
\* limit not above the total limit) the resident bytes are at most maxTotalSizeBytes and
\* every resident entry is strictly smaller than maxEntrySizeBytes.
C28_CacheBounded ==
    (config.cacheEnabled /\ CacheMaxEntrySizeBytes <= CacheMaxTotalSizeBytes) =>
        /\ ResidentBytes(cache, DOMAIN cache.entries) <= CacheMaxTotalSizeBytes
        /\ \A k \in DOMAIN cache.entries :
              Len(cache.entries[k].buffer) < CacheMaxEntrySizeBytes

C28_Witness ==
    /\ ev.req.method = "put" /\ Len(ev.data) = 2
    /\ budget = 0
    /\ ResidentBytes(cache, DOMAIN cache.entries) = CacheMaxTotalSizeBytes
    /\ Cardinality(DOMAIN cache.entries) = 2

\* C29: a put of a value below the per-entry limit leaves that value under the key; no
\* call changes the value of an entry that stays resident unless it is a put for that
\* key; and a get of a resident key returns its value.  Hence get(k) after put(k, v)
\* returns v whatever calls come between, as long as k is not deleted, overwritten or
\* evicted.
C29_GetReturnsPut ==
    [][LET k == S3Key(ev'.req.url) IN
       /\ (ev'.req.method = "put" /\ config.cacheEnabled
              /\ Len(ev'.data) < CacheMaxEntrySizeBytes)
             => Holds(cache', k, ev'.data)
       /\ (ev'.req.method = "get" /\ contains(cache, k))
             => /\ ev'.resp.body = cache.entries[k].buffer
                /\ Holds(cache', k, cache.entries[k].buffer)
       /\ ev'.req.method \in {"put", "get", "delete"}
             => \A j \in DOMAIN cache'.entries :
                   (j # k \/ ev'.req.method = "get")
                     => (contains(cache, j)
                         /\ cache'.entries[j].buffer = cache.entries[j].buffer)]_vars

C29_Witness ==
    /\ ev.req.method = "get" /\ ev.resp.status = OK /\ ev.resp.body = <<8>>
    /\ budget = MaxCacheOps - 3
    /\ Cardinality(DOMAIN cache.entries) = 2

\* the number of the oldest entries of the list that have to go for n more bytes to fit
Evicted(c, keys, n) ==
    CHOOSE e \in 0..Len(keys) :
        /\ BytesOf(c, SubSeq(keys, 1, Len(keys) - e)) + n <= CacheMaxTotalSizeBytes
        /\ \A d \in 0..(e - 1) :
              BytesOf(c, SubSeq(keys, 1, Len(keys) - d)) + n > CacheMaxTotalSizeBytes

\* C30: a put that is stored evicts the least recently used entries, oldest first, and
\* only as many as are needed for the new entry to fit under maxTotalSizeBytes; recency
\* is set by insertion and by a successful get.
C30_EvictsLeastRecentlyUsed ==
    [][LET k == S3Key(ev'.req.url)
           old == Without(Order(cache), k)
       IN
       /\ (ev'.req.method = "put" /\ config.cacheEnabled
              /\ Len(ev'.data) < CacheMaxEntrySizeBytes)
             => Order(cache') =
                  <<k>> \o SubSeq(old, 1, Len(old) - Evicted(cache, old, Len(ev'.data)))
       /\ (ev'.req.method = "get" /\ contains(cache, k))
             => Order(cache') = <<k>> \o old]_vars

C30_Witness ==
    /\ ev.req = [method |-> "put", url |-> <<"/", "c">>] /\ Len(ev.data) = 1
    /\ budget = 0
    /\ Order(cache) = <<<<"c">>, <<"a">>>>
    /\ Len(cache.entries[<<"a">>].buffer) = 2

\* C31: a get that hits makes its key the newest entry of the recency list and keeps the
\* other entries in their order, so the key read is evicted after every entry that was
\* resident with it; a get that misses returns absent and leaves the cache as it was.
C31_GetPromotes ==
    [][LET k == S3Key(ev'.req.url) IN
       ev'.req.method = "get" =>
          IF contains(cache, k)
          THEN /\ ev'.resp.status = OK
               /\ cache'.head = k
               /\ Order(cache') = <<k>> \o Without(Order(cache), k)
               /\ (Len(Order(cache)) > 1 => cache'.tail # k)
          ELSE /\ ev'.resp.status = NotFound /\ ev'.resp.body = NoBody
               /\ cache' = cache]_vars

C31_Witness ==
    /\ ev.req = [method |-> "get", url |-> <<"/", "a">>] /\ ev.resp.status = OK
    /\ budget = MaxCacheOps - 3
    /\ Order(cache) = <<<<"a">>, <<"b">>>>

\* what a put leaves of the entries other than its own key: all of them, in their order
\* and with their values
OthersKept(k) ==
    /\ Without(Order(cache'), k) = Without(Order(cache), k)
    /\ \A j \in DOMAIN cache.entries \ {k} :
          contains(cache', j) /\ cache'.entries[j].buffer = cache.entries[j].buffer

\* C32 as stated: a put with caching disabled or with len(bytes) >= maxEntrySizeBytes
\* changes nothing: resident entries (also the one under that key), order and total size.
C32_RejectedPutNoOp ==
    [][LET k == S3Key(ev'.req.url) IN
       (ev'.req.method = "put"
        /\ (~config.cacheEnabled \/ Len(ev'.data) >= CacheMaxEntrySizeBytes))
          => /\ Order(cache') = Order(cache)
             /\ OthersKept(k)
             /\ contains(cache, k) =>
                   (contains(cache', k) /\ cache'.entries[k].buffer = cache.entries[k].buffer)
             /\ ResidentBytes(cache', DOMAIN cache'.entries)
                   = ResidentBytes(cache, DOMAIN cache.entries)]_vars

\* C32 amended: with caching disabled a put changes nothing; with caching enabled a put of
\* len(bytes) >= maxEntrySizeBytes stores nothing and removes the entry already stored
\* under that key, if any, leaving the other entries, their order and their bytes as
\* they were.
C32_RejectedPutDropsKey ==
    [][LET k == S3Key(ev'.req.url) IN
       /\ (ev'.req.method = "put" /\ ~config.cacheEnabled) => cache' = cache
       /\ (ev'.req.method = "put" /\ config.cacheEnabled
              /\ Len(ev'.data) >= CacheMaxEntrySizeBytes)
             => /\ ~contains(cache', k)
                /\ OthersKept(k)
                /\ Order(cache') = Without(Order(cache), k)
                /\ ResidentBytes(cache', DOMAIN cache'.entries)
                      = ResidentBytes(cache, DOMAIN cache.entries)
                        - (IF contains(cache, k) THEN Len(cache.entries[k].buffer) ELSE 0)]_vars

\* a put of maxEntrySizeBytes bytes has just emptied a cache that held entries
C32_Witness ==
    /\ config.cacheEnabled
    /\ ev.req = [method |-> "put", url |-> <<"/", "a">>]
    /\ Len(ev.data) = CacheMaxEntrySizeBytes
    /\ budget = MaxCacheOps - 3
    /\ Order(cache) = <<<<"b">>>>
    /\ cache.size = 2

\* the same put on a cache that is disabled
C32_WitnessDisabled ==
    /\ ~config.cacheEnabled
    /\ ev.req.method = "put" /\ Len(ev.data) = 1
    /\ budget = 0

\* C33: the failure counter is incremented only by connectivity failures: a backend call
\* that fails for another reason (and not with not-found) never raises it and never
\* starts a pause.
C33_OnlyConnectivityCounted ==
    [][(OtherFailure(ev'.done) /\ ev'.done.err.statusCode # NotFound)
          => (awsErrors' <= awsErrors /\ (awsPaused' => awsPaused))]_vars

\* C34: at most one pause timer is pending at any time, and a backend failure that
\* completes while one is pending neither adds a timer nor changes the one pending.
C34_OnePauseTimer ==
    /\ Len(pauseTimers) <= 1
    /\ (Len(pauseTimers) = 1) = awsPauseTimer

\* the step resolves the backend call of the upload in slot i
ResolvesUpload(i) ==
    reqs[i].method = "PUT" /\ reqs[i].pc = "s3" /\ reqs'[i] = Free

\* C35: when the backend call of an admitted PUT resolves, with any outcome, in either
\* mode and also after the socket timeout has answered the request, its bytes leave the
\* pending budget and its staged copy is removed; the budget is lowered by nothing else.
C35_ReleasedExactlyOnce ==
    [][/\ \A i \in Slots : ResolvesUpload(i) =>
             /\ pendingUploadBytes' = pendingUploadBytes - Len(reqs[i].body)
             /\ S3Key(reqs[i].url) \notin staged'
       /\ pendingUploadBytes' # pendingUploadBytes =>
             \/ \E i \in Slots : ResolvesUpload(i)
             \/ \E i \in Slots : reqs[i].pc = "staging" /\ reqs'[i].pc = "s3"
                                   /\ pendingUploadBytes' = pendingUploadBytes + Len(reqs[i].body)]_vars

\* the bytes of the uploads of the slots in S whose backend call has been started and
\* has not resolved
RECURSIVE UploadingBytes(_)
UploadingBytes(S) ==
    IF S = {} THEN 0
    ELSE LET i == CHOOSE x \in S : TRUE
         IN (IF reqs[i].method = "PUT" /\ reqs[i].pc = "s3" THEN Len(reqs[i].body) ELSE 0)
            + UploadingBytes(S \ {i})

\* C36: the pending budget is never negative, never above the ceiling, and equals the
\* bytes of the uploads in flight (so it is zero when none is in flight).
C36_PendingBudget ==
    /\ pendingUploadBytes >= 0
    /\ pendingUploadBytes <= MaxPendingBytes
    /\ pendingUploadBytes = UploadingBytes(Slots)

\* the step ends the handling of the request in slot i
Finishes(i) == reqs[i].method # "none" /\ reqs'[i] = Free

\* C37: sendResponse runs exactly once for every request: never on a response that has
\* been sent (as after the 404 of the socket timeout), no handler ends with an exception
\* in place of its response, and no request is finished without a response.
C37_ExactlyOneResponse ==
    [][/\ ~ev'.dup
       /\ ~ev'.threw
       /\ \A i \in Slots : Finishes(i) => (reqs[i].sent # 0 \/ ev'.resp # NoResp)]_vars

\* a PUT for key k has created the staged copy and has not finished
Uploading(k) ==
    \E i \in Slots : /\ reqs[i].method = "PUT" /\ S3Key(reqs[i].url) = k
                      /\ reqs[i].pc \in {"staging", "s3"}

\* C38: a staged copy exists only while a PUT for its key is being handled: once that PUT
\* has finished (paused, rejected, staging error, backend call resolved) the copy is gone
\* and a later PUT for the key is not answered as redundant; and nothing is staged when
\* the server has stopped or starts.
C38_StagedCopyGone ==
    /\ \A k \in staged : Uploading(k)
    /\ ~running => staged = {}

\* the keys met on the way from node k along the prev links, at most fuel of them
RECURSIVE WalkBack(_, _, _)
WalkBack(c, k, fuel) ==
    IF k = null \/ fuel = 0 \/ k \notin DOMAIN c.entries THEN <<>>
    ELSE <<k>> \o WalkBack(c, c.entries[k].prev, fuel - 1)

Reverse(s) == [i \in 1..Len(s) |-> s[Len(s) + 1 - i]]

\* C39: the recency list and the key map agree: from head to tail the list visits every
\* mapped key exactly once and nothing else, the prev links give the same list backwards,
\* head is null iff tail is null iff the map is empty, and the size counter is the sum
\* of the byte lengths of the resident entries.
C39_ListAgreesWithMap ==
    LET keys == Order(cache)
        back == WalkBack(cache, cache.tail, Cardinality(DOMAIN cache.entries) + 1)
    IN
    /\ Len(keys) = Cardinality(DOMAIN cache.entries)
    /\ {keys[i] : i \in 1..Len(keys)} = DOMAIN cache.entries
    /\ back = Reverse(keys)
    /\ (cache.head = null) = (cache.tail = null)
    /\ (cache.head = null) = (DOMAIN cache.entries = {})
    /\ cache.head # null => (cache.head \in DOMAIN cache.entries
                             /\ cache.entries[cache.head].prev = null)
    /\ cache.tail # null => (cache.tail \in DOMAIN cache.entries
                             /\ cache.entries[cache.tail].next = null)
    /\ cache.size = ResidentBytes(cache, DOMAIN cache.entries)

C39_Witness ==
    /\ ev.req = [method |-> "get", url |-> <<"/", "b">>] /\ ev.resp.status = OK
    /\ budget = 0
    /\ Order(cache) = <<<<"b">>, <<"c">>, <<"a">>>>
    /\ cache.size = 3

\* C40: with errorsBeforePausing >= 1, while the backend is not paused the failure
\* counter is below errorsBeforePausing, while it is paused a pause timer is pending, and
\* the pause flag goes from true to false only in the callback of a pause timer, never
\* in the completion of a backend call.
C40_PauseInvariants ==
    [][ErrorsBeforePausing >= 1 =>
          /\ ~awsPaused => awsErrors < ErrorsBeforePausing
          /\ ~awsPaused' => awsErrors' < ErrorsBeforePausing
          /\ awsPaused => (pauseTimers # <<>> /\ awsPauseTimer)
          /\ awsPaused' => (pauseTimers' # <<>> /\ awsPauseTimer')
          /\ (awsPaused /\ ~awsPaused')
                => (/\ pauseTimers # <<>> /\ Head(pauseTimers) = 0
                    /\ pauseTimers' = Tail(pauseTimers)
                    /\ ev'.done = NoCall)]_vars

\* a backend call that was in flight has completed successfully during the pause
C40_Witness ==
    /\ ev.done = Success /\ ev.errorsBefore >= ErrorsBeforePausing
    /\ awsPaused /\ awsErrors = 0 /\ pauseTimers # <<>>

====
